---- MODULE Spec2Model ----
(***************************************************************************)
(* Model of src/src/salah/times.rs: the prayer-time pipeline               *)
(* (PrayerTimes::new and the per-prayer functions it calls), the           *)
(* decimal-hour to date-time conversion (hours_to_time) and the lookup     *)
(* operations (current, next, time, time_remaining).                       *)
(*                                                                         *)
(* Units.  A decimal-hour f32 value is an exact number of seconds, or NaN  *)
(* (floating-point rounding below one second is not modelled).  A          *)
(* DateTime is the number of seconds since 00:00:00 of day 0, where day 0  *)
(* is 2021-04-09, the date of the repository's tests.  Angles are in       *)
(* sixths of a degree, longitudes in 1/240 degree (one second of time).    *)
(***************************************************************************)
EXTENDS Integers, Sequences, FiniteSets, TLC

VARIABLES
    tz,     \* the machine's local UTC offset in whole hours (Local::now().offset())
    pc,     \* "start": nothing constructed; "ready": PrayerTimes::new returned Ok;
            \* "done": a lookup on the record has returned; "again": calculate
            \* has been called a second time on the same schedule
    pt,     \* the PrayerTimes record
    vals,   \* the decimal-hour locals of PrayerTimes::new (dohr_time, asr_time, ...)
    now,    \* the system clock read by the last lookup (time::now())
    res     \* what the last operation returned

vars == <<tz, pc, pt, vals, now, res>>

----------------------------------------------------------------------------
(* Bounds of the model *)

\* the clock of a lookup ranges over the days date-NowSpanDays .. date+NowSpanDays
NowSpanDays == 1
\* clock instants tried per day besides the schedule's own instants
GridPerDay == 4

----------------------------------------------------------------------------
(* f32 values: a number of seconds, or NaN *)

NaN == [nan |-> TRUE, s |-> 0]
Num(x) == [nan |-> FALSE, s |-> x]

FAdd(a, b) == IF a.nan \/ b.nan THEN NaN ELSE Num(a.s + b.s)
FSub(a, b) == IF a.nan \/ b.nan THEN NaN ELSE Num(a.s - b.s)

\* floor of x / d for d > 0, whatever the sign of x
FloorDiv(x, d) == IF x >= 0 THEN x \div d ELSE 0 - (((0 - x) + d - 1) \div d)
\* (k * x) / d, as the f32 expression k * x / d, truncated to whole seconds
FScale(a, k, d) == IF a.nan THEN NaN ELSE Num(FloorDiv(k * a.s, d))

\* Rust's `%` on floats: the remainder has the sign of the dividend
TruncRem(x, d) == IF x >= 0 THEN x % d ELSE 0 - ((0 - x) % d)
\* Rust's `f32 as u32` on a whole number: negative values saturate to 0
AsU32(x) == IF x < 0 THEN 0 ELSE x

SecsPerHour == 3600
SecsPerDay == 24 * SecsPerHour

----------------------------------------------------------------------------
(* Inputs *)

\* Jakarta (the tests' city) and Helsinki, with the longitude in seconds of time
Jakarta == [latitude |-> 0 - 6, longitude |-> 25643]
Helsinki == [latitude |-> 60, longitude |-> 5986]
Locations == {Jakarta, Helsinki}

\* 2021-04-09 and 2021-04-19, the two dates of the tests
Dates == {0, 10}

\* UTC offsets the machine may run under: Helsinki's and Jakarta's
Offsets == {2, 7}

\* Config: angles in sixths of a degree, the Ishaa interval in minutes
Configs ==
    [ fajr_angle : {120},
      ishaa_angle : {108, 90},
      madhab : {1, 2},
      isha_interval : { [all_year |-> 0, ramdan |-> 0],
                        [all_year |-> 90, ramdan |-> 120],
                        [all_year |-> 0, ramdan |-> 120] },
      is_summer : BOOLEAN ]

Prayers == {"Fajr", "Sherook", "Dohr", "Asr", "Maghreb", "Ishaa"}

----------------------------------------------------------------------------
(* The astronomy, which lives in crate::hijri::cal and in f32 trigonometry: *)
(* tabulated for the locations and dates above from the formulas of the     *)
(* source, and agreeing with the times the tests expect.                    *)

\* cal::equation_of_time(cal::gregorian_to_julian(date)), in seconds
EquationOfTime(date) ==
    CASE date = 0 -> 97
      [] date = 1 -> 81
      [] date = 10 -> 0 - 52
      [] date = 11 -> 0 - 64

\* HijriDate::from_gregorian(date, 0).month: 2021-04-13 is 1 Ramadan 1442
HijriMonth(date) == IF date >= 4 /\ date <= 33 THEN 9 ELSE 8

\* <<latitude, date, madhab, angle>>
AsrAngleTable ==
    { <<0 - 6, 0, 1, 0 - 308>>, <<0 - 6, 0, 2, 0 - 396>>,
      <<0 - 6, 1, 1, 0 - 309>>, <<0 - 6, 1, 2, 0 - 397>>,
      <<0 - 6, 10, 1, 0 - 317>>, <<0 - 6, 10, 2, 0 - 400>>,
      <<0 - 6, 11, 1, 0 - 318>>, <<0 - 6, 11, 2, 0 - 401>>,
      <<60, 0, 1, 0 - 399>>, <<60, 0, 2, 0 - 439>>,
      <<60, 1, 1, 0 - 398>>, <<60, 1, 2, 0 - 438>>,
      <<60, 10, 1, 0 - 390>>, <<60, 10, 2, 0 - 434>>,
      <<60, 11, 1, 0 - 389>>, <<60, 11, 2, 0 - 433>> }

\* <<latitude, date, angle, hours>>; NaN where the sun never reaches the angle
TimeForAngleTable ==
    { <<0 - 6, 0, 0 - 308, Num(11880)>>, <<0 - 6, 0, 0 - 396, Num(15529)>>,
      <<0 - 6, 0, 545, Num(21600)>>, <<0 - 6, 0, 630, Num(25046)>>,
      <<0 - 6, 0, 648, Num(25775)>>, <<0 - 6, 0, 660, Num(26260)>>,
      <<0 - 6, 1, 0 - 309, Num(11895)>>, <<0 - 6, 1, 0 - 397, Num(15528)>>,
      <<0 - 6, 1, 545, Num(21590)>>, <<0 - 6, 1, 630, Num(25039)>>,
      <<0 - 6, 1, 648, Num(25768)>>, <<0 - 6, 1, 660, Num(26254)>>,
      <<0 - 6, 10, 0 - 317, Num(12006)>>, <<0 - 6, 10, 0 - 400, Num(15512)>>,
      <<0 - 6, 10, 545, Num(21507)>>, <<0 - 6, 10, 630, Num(24986)>>,
      <<0 - 6, 10, 648, Num(25722)>>, <<0 - 6, 10, 660, Num(26211)>>,
      <<0 - 6, 11, 0 - 318, Num(12015)>>, <<0 - 6, 11, 0 - 401, Num(15509)>>,
      <<0 - 6, 11, 545, Num(21497)>>, <<0 - 6, 11, 630, Num(24981)>>,
      <<0 - 6, 11, 648, Num(25718)>>, <<0 - 6, 11, 660, Num(26208)>>,
      <<60, 0, 0 - 399, Num(13235)>>, <<60, 0, 0 - 439, Num(16672)>>,
      <<60, 0, 545, Num(25322)>>, <<60, 0, 630, Num(33536)>>,
      <<60, 0, 648, Num(35969)>>, <<60, 0, 660, Num(38094)>>,
      <<60, 1, 0 - 398, Num(13329)>>, <<60, 1, 0 - 438, Num(16791)>>,
      <<60, 1, 545, Num(25487)>>, <<60, 1, 630, Num(33793)>>,
      <<60, 1, 648, Num(36306)>>, <<60, 1, 660, Num(38574)>>,
      <<60, 10, 0 - 390, Num(14130)>>, <<60, 10, 0 - 434, Num(17818)>>,
      <<60, 10, 545, Num(26959)>>, <<60, 10, 630, Num(36418)>>,
      <<60, 10, 648, Num(40717)>>, <<60, 10, 660, NaN>>,
      <<60, 11, 0 - 389, Num(14213)>>, <<60, 11, 0 - 433, Num(17927)>>,
      <<60, 11, 545, Num(27122)>>, <<60, 11, 630, Num(36760)>>,
      <<60, 11, 648, Num(41878)>>, <<60, 11, 660, NaN>> }

AsrAngle(date, location, config) ==
    (CHOOSE r \in AsrAngleTable :
        r[1] = location.latitude /\ r[2] = date /\ r[3] = config.madhab)[4]

TimeForAngle(angle, date, location) ==
    (CHOOSE r \in TimeForAngleTable :
        r[1] = location.latitude /\ r[2] = date /\ r[3] = angle)[4]

\* 90.83333 degrees, the angle of sunrise and sunset
SunAngle == 545
\* the 90.0 added to config.fajr_angle and config.ishaa_angle
RightAngle == 540

----------------------------------------------------------------------------
(* The pipeline: the decimal-hour value of each instant.  `off` is the UTC  *)
(* offset that the call's own read of Local::now() returns.                 *)

LongitudeDifference(location, off) == off * SecsPerHour - location.longitude

Dohr(date, location, off) ==
    Num(12 * SecsPerHour + LongitudeDifference(location, off) + EquationOfTime(date))

Asr(date, location, config, off) ==
    FAdd(Dohr(date, location, off),
         TimeForAngle(AsrAngle(date, location, config), date, location))

Maghreb(date, location, config, off) ==
    FAdd(Dohr(date, location, off), TimeForAngle(SunAngle, date, location))

\* Ishaa with the Ramadan and the all-year interval exchanged
IshaaBranchSwapped(date, location, config, off) ==
    IF config.isha_interval.all_year > 0
    THEN LET is_ramadan == HijriMonth(date) = 9
             time_after_maghreb ==
                 IF is_ramadan THEN Num(config.isha_interval.all_year * 60)
                               ELSE Num(config.isha_interval.ramdan * 60)
         IN FAdd(FAdd(time_after_maghreb, Dohr(date, location, off)),
                 TimeForAngle(SunAngle, date, location))
    ELSE FAdd(Dohr(date, location, off),
              TimeForAngle(config.ishaa_angle + RightAngle, date, location))

\* Get the Ishaa time
Ishaa(date, location, config, off) ==
    IF config.isha_interval.all_year > 0
    THEN LET is_ramadan == HijriMonth(date) = 9
             time_after_maghreb ==
                 IF is_ramadan THEN Num(config.isha_interval.ramdan * 60)
                               ELSE Num(config.isha_interval.all_year * 60)
         IN FAdd(FAdd(time_after_maghreb, Dohr(date, location, off)),
                 TimeForAngle(SunAngle, date, location))
    ELSE FAdd(Dohr(date, location, off),
              TimeForAngle(config.ishaa_angle + RightAngle, date, location))

Fajr(date, location, config, off) ==
    FSub(Dohr(date, location, off),
         TimeForAngle(config.fajr_angle + RightAngle, date, location))

Sherook(date, location, config, off) ==
    FSub(Dohr(date, location, off), TimeForAngle(SunAngle, date, location))

\* 24.0 - (maghreb_time - fajr_time), the length of the night
NightLength(maghreb_time, fajr_time) ==
    FSub(Num(SecsPerDay), FSub(maghreb_time, fajr_time))

FirstThirdOfNight(date, location, config, offM, offF) ==
    LET maghreb_time == Maghreb(date, location, config, offM)
        fajr_time == Fajr(date, location, config, offF)
    IN FAdd(maghreb_time, FScale(NightLength(maghreb_time, fajr_time), 1, 3))

MidnightTime(date, location, config, offM, offF) ==
    LET maghreb_time == Maghreb(date, location, config, offM)
        fajr_time == Fajr(date, location, config, offF)
    IN FAdd(maghreb_time, FScale(NightLength(maghreb_time, fajr_time), 1, 2))

LastThirdOfNight(date, location, config, offM, offF) ==
    LET maghreb_time == Maghreb(date, location, config, offM)
        fajr_time == Fajr(date, location, config, offF)
    IN FAdd(maghreb_time, FScale(NightLength(maghreb_time, fajr_time), 2, 3))

----------------------------------------------------------------------------
(* Decimal hours to a date-time *)

\* Date::and_hms_opt: None unless the triple is a time of day
AndHmsOpt(date, hour, minute, second) ==
    IF hour < 24 /\ minute < 60 /\ second < 60
    THEN [ok |-> TRUE, t |-> date * SecsPerDay + hour * SecsPerHour + minute * 60 + second]
    ELSE [ok |-> FALSE, t |-> 0]

\* `shift` is in seconds; a NaN cast to u32 is 0
HoursToTime(date, val, shift, config) ==
    LET is_summer == IF config.is_summer THEN 1 ELSE 0
        hour == FAdd(val, Num(shift))
        whole == FloorDiv(hour.s, SecsPerHour)
        frac == hour.s - whole * SecsPerHour
        minute == IF hour.nan THEN 0 ELSE frac \div 60
        second == IF hour.nan THEN 0 ELSE frac % 60
        hour24 == IF hour.nan THEN 0 ELSE AsU32(TruncRem(whole + is_summer, 24))
    IN AndHmsOpt(date, hour24, minute, second)

----------------------------------------------------------------------------
(* PrayerTimes::new *)

\* the calls of Self::dohr, each with its own read of the local offset, in
\* the order PrayerTimes::new makes them
DohrCalls == 13

Fields ==
    <<"dohr", "asr", "maghreb", "ishaa", "fajr", "sherook",
      "first_third_of_night", "midnight", "last_third_of_night", "fajr_tomorrow">>

\* the *_time locals; offs[k] is the offset the k-th call of Self::dohr reads
NewVals(date, location, config, offs) ==
    [ dohr |-> Dohr(date, location, offs[1]),
      asr |-> Asr(date, location, config, offs[2]),
      maghreb |-> Maghreb(date, location, config, offs[3]),
      ishaa |-> Ishaa(date, location, config, offs[4]),
      fajr |-> Fajr(date, location, config, offs[5]),
      sherook |-> Sherook(date, location, config, offs[6]),
      first_third_of_night |-> FirstThirdOfNight(date, location, config, offs[7], offs[8]),
      midnight |-> MidnightTime(date, location, config, offs[9], offs[10]),
      last_third_of_night |-> LastThirdOfNight(date, location, config, offs[11], offs[12]),
      fajr_tomorrow |-> Fajr(date + 1, location, config, offs[13]) ]

\* the date each value is converted on: `tomorrow` for fajr_tomorrow only
DateOf(field, date) == IF field = "fajr_tomorrow" THEN date + 1 ELSE date

NewResult(date, location, config, offs) ==
    LET v == NewVals(date, location, config, offs)
        conv == [f \in DOMAIN v |-> HoursToTime(DateOf(f, date), v[f], 0, config)]
    IN IF \A f \in DOMAIN v : conv[f].ok
       THEN [ ok |-> TRUE,
              rec |-> [f \in DOMAIN v |-> conv[f].t]
                      @@ [date |-> date * SecsPerDay, location |-> location,
                          config |-> config] ]
       ELSE [ ok |-> FALSE, rec |-> << >> ]

----------------------------------------------------------------------------
(* The lookups *)

\* Get next prayer (the match of PrayerTimes::next)
NextOf(prayer) ==
    CASE prayer = "Fajr" -> "Sherook"
      [] prayer = "Sherook" -> "Dohr"
      [] prayer = "Dohr" -> "Asr"
      [] prayer = "Asr" -> "Maghreb"
      [] prayer = "Maghreb" -> "Ishaa"
      [] prayer = "Ishaa" -> "Fajr"

\* Get prayer's time: Fajr is this date's fajr, never fajr_tomorrow
Time(p, prayer) ==
    CASE prayer = "Fajr" -> p.fajr
      [] prayer = "Sherook" -> p.sherook
      [] prayer = "Dohr" -> p.dohr
      [] prayer = "Asr" -> p.asr
      [] prayer = "Maghreb" -> p.maghreb
      [] prayer = "Ishaa" -> p.ishaa

\* a range open at its start and closed at its end
RangeContainsOpenStart(start, end, time) == start < time /\ time <= end

\* (start..end).contains(&time)
RangeContains(start, end, time) == start <= time /\ time < end

Ranges(p) ==
    << <<"Fajr", p.fajr, p.sherook>>,
       <<"Sherook", p.sherook, p.dohr>>,
       <<"Dohr", p.dohr, p.asr>>,
       <<"Asr", p.asr, p.maghreb>>,
       <<"Maghreb", p.maghreb, p.ishaa>>,
       <<"Ishaa", p.ishaa, p.fajr_tomorrow>> >>

\* the loop of current_time from its i-th range on: every range is tried, and
\* the last one that contains `time` wins
RECURSIVE Scan(_, _, _, _)
Scan(ranges, i, time, current_prayer) ==
    IF i > Len(ranges)
    THEN current_prayer
    ELSE Scan(ranges, i + 1, time,
              IF RangeContains(ranges[i][2], ranges[i][3], time)
              THEN ranges[i][1]
              ELSE current_prayer)

\* the dummy value Dohr is what stays when no range contains `time`
CurrentTime(p, time) == Scan(Ranges(p), 1, time, "Dohr")

\* current() never fails: Ok(self.current_time(time::now()))
Current(p, clock) == [ok |-> TRUE, prayer |-> CurrentTime(p, clock)]

Next(p, clock) == [ok |-> TRUE, prayer |-> NextOf(Current(p, clock).prayer)]

\* crate::time: today's date is the clock's; 23:59:59 and 00:00:00 of today
Today(clock) == FloorDiv(clock, SecsPerDay)
OneSecBeforeMidnight(clock) == Today(clock) * SecsPerDay + (SecsPerDay - 1)
Midnight(clock) == Today(clock) * SecsPerDay

\* now_to_next.num_seconds() of time_remaining
NowToNext(p, clock) ==
    LET next_prayer_time == Time(p, Next(p, clock).prayer)
    IN IF next_prayer_time < clock
       THEN LET time_before_midnight == OneSecBeforeMidnight(clock) - clock
                time_after_midnight == next_prayer_time - Midnight(clock)
            IN time_before_midnight + time_after_midnight
       ELSE next_prayer_time - clock

\* whole.trunc() as u32 and (fract * 60.0).round() as u32
TimeRemaining(p, clock) ==
    LET secs == NowToNext(p, clock)
        whole == IF secs >= 0 THEN secs \div SecsPerHour
                              ELSE 0 - ((0 - secs) \div SecsPerHour)
        fract == TruncRem(secs, SecsPerHour)
    IN [ ok |-> TRUE, secs |-> secs,
         hours |-> AsU32(whole),
         minutes |-> AsU32(IF fract >= 0 THEN (fract + 30) \div 60 ELSE 0) ]

----------------------------------------------------------------------------
(* The state machine *)

NoResult ==
    [op |-> "none", err |-> "", prayer |-> "", secs |-> 0, hours |-> 0,
     minutes |-> 0, at |-> 0]

Init ==
    /\ tz \in Offsets
    /\ pc = "start"
    /\ pt = << >>
    /\ vals = << >>
    /\ now = 0
    /\ res = NoResult

\* PrayerSchedule::calculate -> PrayerTimes::new.  The machine's offset may
\* change once while new() runs: the first `flip` reads of it see tz, the
\* later ones see off2.
New ==
    /\ pc = "start"
    /\ \E date \in Dates, location \in Locations, config \in Configs,
          flip \in 1 .. DohrCalls, off2 \in Offsets :
          LET offs == [k \in 1 .. DohrCalls |-> IF k <= flip THEN tz ELSE off2]
              r == NewResult(date, location, config, offs)
          IN /\ tz' = offs[DohrCalls]
             /\ IF r.ok
                THEN /\ pc' = "ready"
                     /\ pt' = r.rec
                     /\ vals' = NewVals(date, location, config, offs)
                     /\ res' = [NoResult EXCEPT !.op = "new"]
                ELSE /\ pc' = "start"
                     /\ pt' = << >>
                     /\ vals' = << >>
                     /\ res' = [NoResult EXCEPT !.op = "new", !.err = "InvalidTime"]
    /\ UNCHANGED now

\* PrayerSchedule::calculate called a second time on the same schedule (it
\* takes &self, and the schedule is Copy): new() runs again with the date,
\* location and config the record was built from.  The machine's offset may
\* have changed before the call (flip = 0) or change while it runs.  On Err
\* the caller still holds the first record.
Recalculate ==
    /\ pc = "ready"
    /\ \E flip \in 0 .. DohrCalls, off2 \in Offsets :
          LET date == pt.date \div SecsPerDay
              offs == [k \in 1 .. DohrCalls |-> IF k <= flip THEN tz ELSE off2]
              r == NewResult(date, pt.location, pt.config, offs)
          IN /\ tz' = offs[DohrCalls]
             /\ IF r.ok
                THEN /\ pc' = "again"
                     /\ pt' = r.rec
                     /\ vals' = NewVals(date, pt.location, pt.config, offs)
                     /\ res' = [NoResult EXCEPT !.op = "new"]
                ELSE /\ pc' = "again"
                     /\ UNCHANGED <<pt, vals>>
                     /\ res' = [NoResult EXCEPT !.op = "new", !.err = "InvalidTime"]
    /\ UNCHANGED now

\* A lookup reads the record and the clock and changes neither, so a run makes
\* one lookup on the record it built.
\* The instants the clock is read at: each instant of the schedule, the second
\* before it, one second less than an hour before it, and a grid over the days around the schedule's date
Clocks(p) ==
    LET day == p.date \div SecsPerDay
    IN { p[f] - d : f \in {"fajr", "sherook", "dohr", "asr", "maghreb", "ishaa",
                           "fajr_tomorrow"}, d \in {0, 1, SecsPerHour - 1} }
       \cup { (day + k) * SecsPerDay + j * (SecsPerDay \div GridPerDay) :
                 k \in (0 - NowSpanDays) .. NowSpanDays, j \in 0 .. GridPerDay - 1 }
       \cup { (day + k) * SecsPerDay + (SecsPerDay - 1) :
                 k \in (0 - NowSpanDays) .. NowSpanDays }

DoCurrent ==
    /\ pc = "ready"
    /\ \E clock \in Clocks(pt) :
          /\ now' = clock
          /\ res' = [NoResult EXCEPT !.op = "current",
                                     !.prayer = Current(pt, clock).prayer]
    /\ pc' = "done"
    /\ UNCHANGED <<tz, pt, vals>>

DoNext ==
    /\ pc = "ready"
    /\ \E clock \in Clocks(pt) :
          /\ now' = clock
          /\ res' = [NoResult EXCEPT !.op = "next",
                                     !.prayer = Next(pt, clock).prayer]
    /\ pc' = "done"
    /\ UNCHANGED <<tz, pt, vals>>

DoTimeRemaining ==
    /\ pc = "ready"
    /\ \E clock \in Clocks(pt) :
          LET r == TimeRemaining(pt, clock)
          IN /\ now' = clock
             /\ res' = [NoResult EXCEPT !.op = "time_remaining", !.secs = r.secs,
                                        !.hours = r.hours, !.minutes = r.minutes]
    /\ pc' = "done"
    /\ UNCHANGED <<tz, pt, vals>>

DoTime ==
    /\ pc = "ready"
    /\ \E prayer \in Prayers :
          res' = [NoResult EXCEPT !.op = "time", !.prayer = prayer,
                                  !.at = Time(pt, prayer)]
    /\ pc' = "done"
    /\ UNCHANGED <<tz, pt, vals, now>>

Next_ == New \/ Recalculate \/ DoCurrent \/ DoNext \/ DoTimeRemaining \/ DoTime

Spec == Init /\ [][Next_]_vars

----------------------------------------------------------------------------
(* Properties *)

Date(p) == p.date \div SecsPerDay

\* fajr < sherook < dohr < asr < maghreb < ishaa < fajr_tomorrow
Ordered(p) ==
    /\ p.fajr < p.sherook
    /\ p.sherook < p.dohr
    /\ p.dohr < p.asr
    /\ p.asr < p.maghreb
    /\ p.maghreb < p.ishaa
    /\ p.ishaa < p.fajr_tomorrow

\* every read of the local offset during PrayerTimes::new returned the same offset
SingleOffset ==
    vals = NewVals(Date(pt), pt.location, pt.config, [k \in 1 .. DohrCalls |-> tz])

\* a decimal-hour value inside the day: a number in [0, 24)
InDay(v) == ~v.nan /\ 0 <= v.s /\ v.s < SecsPerDay

\* every value among `fields` is inside the day and stays there with the summer
\* hour added, and every read of the offset agreed: the conversion wrapped and
\* substituted nothing
Plain(fields) ==
    /\ SingleOffset
    /\ \A f \in fields :
          /\ InDay(vals[f])
          /\ pt.config.is_summer => vals[f].s + SecsPerHour < SecsPerDay

LookupFields == {"fajr", "sherook", "dohr", "asr", "maghreb", "ishaa", "fajr_tomorrow"}

\* the prayer whose half-open interval holds t, for fajr <= t < fajr_tomorrow
IntervalOf(p, t) ==
    CASE t < p.sherook -> "Fajr"
      [] p.sherook <= t /\ t < p.dohr -> "Sherook"
      [] p.dohr <= t /\ t < p.asr -> "Dohr"
      [] p.asr <= t /\ t < p.maghreb -> "Asr"
      [] p.maghreb <= t /\ t < p.ishaa -> "Maghreb"
      [] p.ishaa <= t -> "Ishaa"

InSomeInterval(p, t) ==
    \E i \in 1 .. 6 : Ranges(p)[i][2] <= t /\ t < Ranges(p)[i][3]

\* C1: on a strictly ordered schedule, for fajr <= now < fajr_tomorrow, current
\* returns the prayer whose half-open interval [start, end) contains now: an
\* instant equal to a start belongs to that prayer, one equal to an end to the
\* following prayer.
C1_CurrentIsContainingInterval ==
    (/\ pc = "done"
     /\ res.op = "current"
     /\ Ordered(pt)
     /\ pt.fajr <= now
     /\ now < pt.fajr_tomorrow)
    => res.prayer = IntervalOf(pt, now)

\* a lookup exactly at maghreb on an ordered schedule, answered Maghreb
C1_Witness ==
    /\ pc = "done"
    /\ res.op = "current"
    /\ Ordered(pt)
    /\ now = pt.maghreb
    /\ res.prayer = "Maghreb"

\* C2: for every now on the schedule's date earlier than fajr, current returns
\* Ishaa (the Dohr fallback is never the result).  Stated on strictly ordered
\* schedules whose values the conversion did not wrap.
C2_PreDawnIsIshaa ==
    (/\ pc = "done"
     /\ res.op = "current"
     /\ Ordered(pt)
     /\ Plain(LookupFields)
     /\ Today(now) = Date(pt)
     /\ now < pt.fajr)
    => res.prayer = "Ishaa"

\* C3: every schedule PrayerTimes::new returns is strictly ordered as
\* date-times: fajr < sherook < dohr < asr < maghreb < ishaa < fajr_tomorrow.
\* Stated for records built under one local offset.
C3_ScheduleOrdered ==
    (pc # "start" /\ SingleOffset) => Ordered(pt)

\* C4: at the instant time_of(p) current is p and next is the successor of p,
\* for each of the six prayers; and next is always the successor of current.
\* Stated for records built under one local offset.
C4_CyclicClosure ==
    /\ (pc = "done" /\ SingleOffset /\ res.op = "current")
       => \A p \in Prayers : now = Time(pt, p) => res.prayer = p
    /\ (pc = "done" /\ SingleOffset /\ res.op = "next")
       => /\ \A p \in Prayers : now = Time(pt, p) => res.prayer = NextOf(p)
          /\ res.prayer = NextOf(CurrentTime(pt, now))

\* C5: time_remaining is never negative; it is time_of(next) - now when that
\* instant is not earlier than now, and fajr_tomorrow - now when it is (now in
\* the Ishaa interval).  Stated on strictly ordered schedules whose values the
\* conversion did not wrap, for now in the six intervals.
C5_TimeRemainingToNext ==
    (/\ pc = "done"
     /\ res.op = "time_remaining"
     /\ Ordered(pt)
     /\ Plain(LookupFields)
     /\ pt.fajr <= now
     /\ now < pt.fajr_tomorrow)
    => /\ res.secs >= 0
       /\ LET target == Time(pt, NextOf(IntervalOf(pt, now)))
          IN IF target >= now
             THEN res.secs = target - now
             ELSE res.secs = pt.fajr_tomorrow - now

\* the instant PrayerTimes::new stores for a field when is_summer is false
WinterInstant(f) ==
    HoursToTime(DateOf(f, Date(pt)), vals[f], 0,
                [pt.config EXCEPT !.is_summer = FALSE]).t

\* C6: with is_summer every instant of the record is exactly 3600 seconds
\* later than the instant computed without it, for every decimal-hour value
\* in [0, 24), those in [23, 24) included.
C6_SummerAddsOneHour ==
    (pc # "start" /\ pt.config.is_summer)
    => \A i \in 1 .. Len(Fields) :
          InDay(vals[Fields[i]])
          => pt[Fields[i]] = WinterInstant(Fields[i]) + SecsPerHour

\* C7: midnight is exactly halfway between maghreb and fajr_tomorrow.  Stated
\* on schedules whose maghreb, midnight and fajr values the conversion did not
\* wrap.
C7_MidnightIsMidpoint ==
    (pc # "start" /\ Plain({"maghreb", "midnight", "fajr", "fajr_tomorrow"}))
    => pt.midnight - pt.maghreb = pt.fajr_tomorrow - pt.midnight

\* the Ishaa value the claim gives, from the sunset value m and the noon value d
IshaaClaimed(m, d) ==
    LET c == pt.config
    IN IF c.isha_interval.all_year > 0
       THEN FAdd(m, Num(60 * (IF HijriMonth(Date(pt)) = 9
                              THEN c.isha_interval.ramdan
                              ELSE c.isha_interval.all_year)))
       ELSE FAdd(d, TimeForAngle(c.ishaa_angle + RightAngle, Date(pt), pt.location))

\* C8: with all_year > 0, ishaa = maghreb + ramadan minutes in Hijri month 9
\* and maghreb + all_year minutes otherwise, the Ishaa angle unused; with
\* all_year = 0, ishaa = dohr + time_for_angle(ishaa_angle + 90), the interval
\* unused.  maghreb and dohr are the values Self::ishaa computes for itself,
\* which are the record's own when every call read the same offset.
C8_IshaaBranch ==
    pc # "start"
    => /\ \E off \in Offsets :
             vals.ishaa = IshaaClaimed(Maghreb(Date(pt), pt.location, pt.config, off),
                                       Dohr(Date(pt), pt.location, off))
       /\ SingleOffset => vals.ishaa = IshaaClaimed(vals.maghreb, vals.dohr)

\* a fixed-interval schedule in Ramadan whose two intervals differ
C8_Witness ==
    /\ pc = "ready"
    /\ SingleOffset
    /\ pt.config.isha_interval.all_year > 0
    /\ pt.config.isha_interval.ramdan # pt.config.isha_interval.all_year
    /\ HijriMonth(Date(pt)) = 9
    /\ vals.ishaa = FAdd(vals.maghreb, Num(60 * pt.config.isha_interval.ramdan))

\* seconds since 00:00:00 of the instant's own date
TimeOfDay(t) == t % SecsPerDay

\* C9: every value v handed to the conversion either yields hour
\* floor(v + is_summer) mod 24 (mathematical modulo) with minute and second from
\* the fraction of v, or construction fails; a negative or NaN value never
\* yields a substituted time.  Stated for records built under one local offset.
C9_ConvertedOrFailed ==
    (pc # "start" /\ SingleOffset)
    => \A i \in 1 .. Len(Fields) :
          LET v == vals[Fields[i]]
              summer == IF pt.config.is_summer THEN 1 ELSE 0
          IN /\ ~v.nan
             /\ TimeOfDay(pt[Fields[i]]) =
                   ((FloorDiv(v.s, SecsPerHour) + summer) % 24) * SecsPerHour
                   + (v.s % SecsPerHour)

\* C10: a lookup whose now lies in none of the six intervals returns the
\* NoCurrentPrayer error.  Stated on strictly ordered schedules whose values
\* the conversion did not wrap.
C10_NoIntervalIsError ==
    (/\ pc = "done"
     /\ res.op \in {"current", "next", "time_remaining"}
     /\ Ordered(pt)
     /\ Plain(LookupFields)
     /\ ~InSomeInterval(pt, now))
    => res.err = "NoCurrentPrayer"

\* C11: PrayerTimes construction is a function of (location, date, config)
\* only: a second construction from the same schedule returns the record the
\* first one returned, whatever the machine's clock and UTC offset are at the
\* time of each call, and the ten instants of every record are derived from
\* one and the same UTC offset.
OneOffset ==
    \E off \in Offsets :
        vals = NewVals(Date(pt), pt.location, pt.config, [k \in 1 .. DohrCalls |-> off])

C11_ConstructionDeterministic ==
    /\ [](pc # "start" => OneOffset)
    /\ [][(pc = "ready" /\ pc' = "again") => (res'.err = "" /\ pt' = pt)]_vars

\* C12: for a remaining duration of s >= 0 whole seconds, time_remaining
\* returns (hours, minutes) with 0 <= minutes <= 59 and hours*60 + minutes equal
\* to s/60 rounded to the nearest minute; minutes is never 60.
C12_NormalisedDuration ==
    (/\ pc = "done"
     /\ res.op = "time_remaining"
     /\ SingleOffset
     /\ Ordered(pt)
     /\ Plain(LookupFields)
     /\ res.secs >= 0)
    => /\ res.minutes >= 0
       /\ res.minutes <= 59
       /\ res.hours * 60 + res.minutes = (res.secs + 30) \div 60

====
